---- MODULE Spec2Model ----
(***************************************************************************)
(* Model of netlify/functions/gemini-proxy.js: the `handler` function that *)
(* forwards a prompt to the Gemini API with a server-held API key.         *)
(*                                                                         *)
(* Strings are sequences of chunks.  A chunk [q, v] is either raw          *)
(* characters v (q = FALSE) or, inside JSON text, the string literal with  *)
(* content v (q = TRUE).  Template literals are concatenations of chunk    *)
(* sequences; JSON.parse and JSON.stringify are computed on them.          *)
(***************************************************************************)
EXTENDS Integers, Sequences, FiniteSets, TLC

\* ------------------------------------------------------------ bounds
\* Number of invocations of the handler one behaviour may hold.
MaxInvocations == 2

\* ------------------------------------------------------------ text
Raw(s) == [q |-> FALSE, v |-> s]
Quoted(s) == [q |-> TRUE, v |-> s]

\* t occurs in s as a contiguous run of chunks (String.prototype.includes).
IsInfix(t, s) ==
    \E i \in 0..(Len(s) - Len(t)) : \A j \in 1..Len(t) : s[i + j] = t[j]

\* The chunk sequence s holds the string a somewhere.
ContainsAtom(s, a) == \E i \in 1..Len(s) : s[i].v = a

\* ------------------------------------------------------------ JS values
JUndef == [k |-> "undefined"]
JNull == [k |-> "null"]
JBool(b) == [k |-> "bool", b |-> b]
JNum(n) == [k |-> "num", n |-> n]
JStr(s) == [k |-> "str", s |-> s]
JArr(items) == [k |-> "arr", items |-> items]
JObj(keys, vals) == [k |-> "obj", keys |-> keys, vals |-> vals]

\* ToBoolean, as used by `!prompt`, `!apiKey`, `systemPrompt || ""` and `a && b`.
Truthy(v) ==
    CASE v.k = "undefined" -> FALSE
      [] v.k = "null" -> FALSE
      [] v.k = "bool" -> v.b
      [] v.k = "num" -> v.n # 0
      [] v.k = "str" -> v.s # ""
      [] OTHER -> TRUE

\* Reading a property of undefined or null raises a TypeError.
CanRead(v) == v.k \notin {"undefined", "null"}

\* Length of a string primitive: strings of the model are empty or not.
StrLen(s) == IF s = "" THEN 0 ELSE 1

\* Index of the last member of object o named name, 0 when there is none
\* (JSON.parse keeps the last of duplicate keys).
RECURSIVE LastKey(_, _, _)
LastKey(keys, name, i) ==
    IF i = 0 THEN 0
    ELSE IF keys[i] = name THEN i ELSE LastKey(keys, name, i - 1)

\* v.name for a readable v.
Get(v, name) ==
    CASE v.k = "obj" ->
            LET i == LastKey(v.keys, name, Len(v.keys))
            IN IF i = 0 THEN JUndef ELSE v.vals[i]
      [] v.k = "arr" -> IF name = "length" THEN JNum(Len(v.items)) ELSE JUndef
      [] v.k = "str" -> IF name = "length" THEN JNum(StrLen(v.s)) ELSE JUndef
      [] OTHER -> JUndef

\* v[0] for a readable v.  The first character of a string is again a string
\* primitive; only its being one matters to the handler.
Index0(v) ==
    CASE v.k = "arr" -> IF Len(v.items) > 0 THEN v.items[1] ELSE JUndef
      [] v.k = "str" -> IF v.s # "" THEN JStr(v.s) ELSE JUndef
      [] v.k = "obj" -> Get(v, "0")
      [] OTHER -> JUndef

\* The string form of v is a positive number (the operand of `> 0` after ToPrimitive).
RECURSIVE PosStr(_)
PosStr(v) ==
    CASE v.k = "num" -> v.n > 0
      [] v.k = "str" -> v.s = "1"
      [] v.k = "arr" -> Len(v.items) = 1 /\ PosStr(v.items[1])
      [] OTHER -> FALSE

\* v > 0 with ToNumber applied to v.
GreaterThanZero(v) ==
    CASE v.k = "bool" -> v.b
      [] v.k = "num" -> v.n > 0
      [] v.k = "str" -> v.s = "1"
      [] v.k = "arr" -> PosStr(v)
      [] OTHER -> FALSE

\* ------------------------------------------------------------ JSON.parse
ParseFail == [ok |-> FALSE, val |-> JUndef, next |-> 0]
ParseOk(v, n) == [ok |-> TRUE, val |-> v, next |-> n]

RECURSIVE ParseValue(_, _), ParseElements(_, _, _), ParseMembers(_, _, _, _)
ParseValue(t, i) ==
    IF i > Len(t) THEN ParseFail
    ELSE LET c == t[i] IN
         IF c.q THEN ParseOk(JStr(c.v), i + 1)
         ELSE CASE c.v = "null" -> ParseOk(JNull, i + 1)
                [] c.v = "true" -> ParseOk(JBool(TRUE), i + 1)
                [] c.v = "false" -> ParseOk(JBool(FALSE), i + 1)
                [] c.v = "0" -> ParseOk(JNum(0), i + 1)
                [] c.v = "1" -> ParseOk(JNum(1), i + 1)
                [] c.v = "[" ->
                     IF i + 1 <= Len(t) /\ t[i + 1] = Raw("]")
                     THEN ParseOk(JArr(<<>>), i + 2)
                     ELSE ParseElements(t, i + 1, <<>>)
                [] c.v = "{" ->
                     IF i + 1 <= Len(t) /\ t[i + 1] = Raw("}")
                     THEN ParseOk(JObj(<<>>, <<>>), i + 2)
                     ELSE ParseMembers(t, i + 1, <<>>, <<>>)
                [] OTHER -> ParseFail

ParseElements(t, i, acc) ==
    LET r == ParseValue(t, i) IN
    IF ~r.ok \/ r.next > Len(t) THEN ParseFail
    ELSE IF t[r.next] = Raw(",") THEN ParseElements(t, r.next + 1, Append(acc, r.val))
    ELSE IF t[r.next] = Raw("]") THEN ParseOk(JArr(Append(acc, r.val)), r.next + 1)
    ELSE ParseFail

ParseMembers(t, i, keys, vals) ==
    IF i + 1 > Len(t) \/ ~t[i].q \/ t[i + 1] # Raw(":") THEN ParseFail
    ELSE LET r == ParseValue(t, i + 2) IN
         IF ~r.ok \/ r.next > Len(t) THEN ParseFail
         ELSE IF t[r.next] = Raw(",")
              THEN ParseMembers(t, r.next + 1, Append(keys, t[i].v), Append(vals, r.val))
         ELSE IF t[r.next] = Raw("}")
              THEN ParseOk(JObj(Append(keys, t[i].v), Append(vals, r.val)), r.next + 1)
         ELSE ParseFail

\* JSON.parse(text): [ok, val]; ok = FALSE is the SyntaxError.
JSONparse(t) ==
    LET r == ParseValue(t, 1) IN
    IF r.ok /\ r.next = Len(t) + 1 THEN [ok |-> TRUE, val |-> r.val]
    ELSE [ok |-> FALSE, val |-> JUndef]

\* ------------------------------------------------------------ JSON.stringify
RECURSIVE Stringify(_), StringifyItems(_, _), StringifyMembers(_, _, _, _)
Stringify(v) ==
    CASE v.k = "null" -> <<Raw("null")>>
      [] v.k = "bool" -> IF v.b THEN <<Raw("true")>> ELSE <<Raw("false")>>
      [] v.k = "num" -> <<Raw(ToString(v.n))>>
      [] v.k = "str" -> <<Quoted(v.s)>>
      [] v.k = "arr" -> <<Raw("[")>> \o StringifyItems(v.items, 1) \o <<Raw("]")>>
      [] v.k = "obj" ->
            <<Raw("{")>> \o StringifyMembers(v.keys, v.vals, 1, TRUE) \o <<Raw("}")>>
      [] OTHER -> <<>>

\* Array elements; an undefined element is written as null.
StringifyItems(items, i) ==
    IF i > Len(items) THEN <<>>
    ELSE (IF i > 1 THEN <<Raw(",")>> ELSE <<>>)
         \o (IF items[i].k = "undefined" THEN <<Raw("null")>> ELSE Stringify(items[i]))
         \o StringifyItems(items, i + 1)

\* Object members; a member whose value is undefined is left out.
StringifyMembers(keys, vals, i, first) ==
    IF i > Len(keys) THEN <<>>
    ELSE IF vals[i].k = "undefined" THEN StringifyMembers(keys, vals, i + 1, first)
    ELSE (IF first THEN <<>> ELSE <<Raw(",")>>)
         \o <<Quoted(keys[i]), Raw(":")>> \o Stringify(vals[i])
         \o StringifyMembers(keys, vals, i + 1, FALSE)

\* ------------------------------------------------------------ inputs
\* { key : val } and [ el ] as JSON text.
Obj1(key, val) == <<Raw("{"), Quoted(key), Raw(":")>> \o val \o <<Raw("}")>>
Obj2(k1, v1, k2, v2) ==
    <<Raw("{"), Quoted(k1), Raw(":")>> \o v1 \o <<Raw(","), Quoted(k2), Raw(":")>>
    \o v2 \o <<Raw("}")>>
Arr1(el) == <<Raw("[")>> \o el \o <<Raw("]")>>

\* event.body: a string, or undefined / null when the request carries no body.
BodyAbsent == {JUndef, JNull}
BodyText(t) == [k |-> "text", t |-> t]

RequestTexts ==
    { <<>>, <<Raw("{")>>, <<Raw("hello")>>, Obj1("prompt", <<>>),
      <<Raw("null")>>, <<Raw("0")>>, <<Raw("1")>>, <<Raw("true")>>, <<Quoted("hello")>>,
      <<Raw("["), Raw("]")>>, Arr1(<<Quoted("hello")>>),
      <<Raw("{"), Raw("}")>>,
      Obj1("prompt", <<Quoted("")>>), Obj1("prompt", <<Raw("0")>>),
      Obj1("prompt", <<Raw("false")>>), Obj1("prompt", <<Raw("null")>>),
      Obj1("systemPrompt", <<Quoted("sys")>>),
      Obj1("prompt", <<Quoted("hello")>>), Obj1("prompt", <<Raw("1")>>),
      Obj2("prompt", <<Quoted("hello")>>, "systemPrompt", <<Quoted("sys")>>),
      Obj2("prompt", <<Quoted("hello")>>, "prompt", <<Quoted("")>>) }

Methods == {"POST", "GET", "OPTIONS"}
Events ==
    [httpMethod : Methods, body : BodyAbsent \cup {BodyText(t) : t \in RequestTexts}]

\* process.env.GEMINI_API_KEY: unset, set to the empty string, or set.
Secret == "SECRET"
ApiKeys == {JUndef, JStr(""), JStr(Secret)}

\* ------------------------------------------------------------ handler, lines 17-63
\* String(x) as JSON.parse applies it to its argument.
ToStringArg(b) ==
    CASE b.k = "undefined" -> <<Raw("undefined")>>
      [] b.k = "null" -> <<Raw("null")>>
      [] OTHER -> b.t

Response(status, body) == [statusCode |-> status, json |-> FALSE, body |-> body]

\* Variant: only GET is turned away.
MethodNotAllowed_GetOnly(e) == e.httpMethod = "GET"
MethodNotAllowed(e) == e.httpMethod # "POST"
\* Variant: only an undefined prompt counts as missing (`prompt === undefined`).
PromptMissing_UndefinedOnly(prompt) == prompt.k = "undefined"
PromptMissing(prompt) == ~Truthy(prompt)
KeyMissing(key) == ~Truthy(key)

MethodNotAllowedResponse == Response(405, <<Raw("Method Not Allowed")>>)
InvalidJsonResponse == Response(400, <<Raw("Bad Request: Invalid JSON.")>>)
PromptRequiredResponse == Response(400, <<Raw("Bad Request: \"prompt\" is required.")>>)
ConfigMissingLog == <<Raw("GEMINI_API_KEY is not set in Netlify environment.")>>
\* Variant: the response carries the logged cause.
ConfigMissingResponse_Verbose ==
    Response(500, <<Raw("Internal Server Error: ")>> \o ConfigMissingLog)
ConfigMissingResponse ==
    Response(500, <<Raw("Internal Server Error: API configuration missing.")>>)

\* `${x}` of a string value.
Interpolate(v) == IF v.s = "" THEN <<>> ELSE <<Raw(v.s)>>

ApiUrl(key) ==
    <<Raw("https://generativelanguage.googleapis.com/v1beta/models/gemini-2.5-flash-preview-09-2025:generateContent?key=")>>
    \o Interpolate(key)

Payload(prompt, systemPrompt) ==
    JObj(<<"contents", "systemInstruction">>,
         << JArr(<<JObj(<<"parts">>, <<JArr(<<JObj(<<"text">>, <<prompt>>)>>)>>)>>),
            JObj(<<"parts">>,
                 <<JArr(<<JObj(<<"text">>,
                               <<IF Truthy(systemPrompt) THEN systemPrompt
                                 ELSE JStr("")>>)>>)>>) >>)

FetchRequest(key, prompt, systemPrompt) ==
    [url |-> ApiUrl(key), method |-> "POST",
     body |-> Stringify(Payload(prompt, systemPrompt))]

\* What one run of the handler does up to its first await: it returns a response
\* (kind "return"), raises out of the function (kind "throw") or issues the fetch
\* (kind "fetch").
Returns(r, lg) == [kind |-> "return", resp |-> <<r>>, log |-> lg, req |-> <<>>]
Entry(e, key) ==
    IF MethodNotAllowed(e) THEN Returns(MethodNotAllowedResponse, <<>>)
    ELSE LET parsed == JSONparse(ToStringArg(e.body)) IN
    IF ~parsed.ok THEN Returns(InvalidJsonResponse, <<>>)
    ELSE IF ~CanRead(parsed.val)
         THEN [kind |-> "throw", resp |-> <<>>, log |-> <<>>, req |-> <<>>]
    ELSE LET prompt == Get(parsed.val, "prompt")
             systemPrompt == Get(parsed.val, "systemPrompt") IN
    IF PromptMissing(prompt) THEN Returns(PromptRequiredResponse, <<>>)
    ELSE IF KeyMissing(key) THEN Returns(ConfigMissingResponse, <<ConfigMissingLog>>)
    ELSE [kind |-> "fetch", resp |-> <<>>, log |-> <<>>,
          req |-> <<FetchRequest(key, prompt, systemPrompt)>>]

\* ------------------------------------------------------------ upstream
UpStatuses == {200, 201, 400, 404, 429, 500}
Ok(status) == status >= 200 /\ status <= 299

CandidatesBody(cands) == Obj1("candidates", cands)
Part(text) == Obj1("text", <<Quoted(text)>>)
Candidate(parts) == Obj1("content", Obj1("parts", parts))

\* Body texts the upstream may answer a request with; it has seen the request URL.
UpstreamTexts(req) ==
    { CandidatesBody(Arr1(Candidate(Arr1(Part("world"))))),
      CandidatesBody(Arr1(Candidate(Arr1(Part("world") \o <<Raw(",")>> \o Part("more")))
                          \o <<Raw(",")>> \o Candidate(Arr1(Part("other"))))),
      CandidatesBody(Arr1(Candidate(Arr1(Part(Secret))))),
      CandidatesBody(<<Raw("["), Raw("]")>>),
      CandidatesBody(<<Raw("null")>>),
      CandidatesBody(<<Quoted("x")>>),
      CandidatesBody(Arr1(<<Raw("{"), Raw("}")>>)),
      CandidatesBody(Arr1(Obj1("finishReason", <<Quoted("SAFETY")>>))),
      CandidatesBody(Arr1(Obj1("content", <<Raw("{"), Raw("}")>>))),
      CandidatesBody(Arr1(Candidate(<<Raw("["), Raw("]")>>))),
      CandidatesBody(Arr1(Candidate(Arr1(<<Raw("{"), Raw("}")>>)))),
      CandidatesBody(Arr1(<<Raw("null")>>)),
      <<Raw("{"), Raw("}")>>, <<Raw("null")>>, <<Raw("1")>>, <<Quoted("done")>>,
      <<>>, <<Raw("rate limited")>>, <<Raw("<html>")>>,
      Obj1("error", <<Quoted("quota")>>),
      <<Raw("Not found: ")>> \o req.url }

UpstreamBodies(req) == {[k |-> "broken"]} \cup {BodyText(t) : t \in UpstreamTexts(req)}

\* error.message of a rejected fetch or of a body stream that breaks.
TransportErrors == { <<Raw("fetch failed")>>, <<Raw("terminated")>> }

\* error.message of the SyntaxError response.json() raises; engines differ in
\* whether the message quotes the offending text.
JsonErrors(t) ==
    { <<Raw("Unexpected end of JSON input")>>,
      <<Raw("Unexpected token, \"")>> \o t \o <<Raw("\" is not valid JSON")>> }

TypeErrorMessage == <<Raw("Cannot read properties of undefined")>>

\* ------------------------------------------------------------ handler, lines 65-89
CatchLog(msg) == <<Raw("Error calling Gemini API:")>> \o msg
CatchResponse(msg) == Response(500, <<Raw("Internal Server Error: ")>> \o msg)

ApiErrorLog(status, errorText) ==
    <<Raw("Gemini API error: "), Raw(ToString(status))>> \o errorText
\* Variant: every upstream error is reported as 500.
ApiErrorResponse_Always500(status, errorText) ==
    Response(500, <<Raw("Gemini API Error: ")>> \o errorText)
ApiErrorResponse(status, errorText) ==
    Response(status, <<Raw("Gemini API Error: ")>> \o errorText)

NoCandidatesResponse == Response(500, <<Raw("Gemini API returned no candidates.")>>)
TextResponse(text) ==
    [statusCode |-> 200, json |-> TRUE,
     body |-> Stringify(JObj(<<"text">>, <<text>>))]

HasCandidates(result) ==
    LET c == Get(result, "candidates")
    IN Truthy(c) /\ GreaterThanZero(Get(c, "length"))

\* result.candidates[0].content.parts[0].text: [ok, val]; ok = FALSE is the
\* TypeError of reading a property of undefined or null on the way.
FirstText(result) ==
    LET c0 == Index0(Get(result, "candidates"))
        content == IF CanRead(c0) THEN Get(c0, "content") ELSE JUndef
        parts == IF CanRead(content) THEN Get(content, "parts") ELSE JUndef
        p0 == IF CanRead(parts) THEN Index0(parts) ELSE JUndef
    IN IF CanRead(p0) THEN [ok |-> TRUE, val |-> Get(p0, "text")]
       ELSE [ok |-> FALSE, val |-> JUndef]

\* Lines 73-84 on the parsed body: [threw, resp].
Extract(result) ==
    IF ~CanRead(result) THEN [threw |-> TRUE, resp |-> NoCandidatesResponse]
    ELSE IF HasCandidates(result)
         THEN LET t == FirstText(result) IN
              IF t.ok THEN [threw |-> FALSE, resp |-> TextResponse(t.val)]
              ELSE [threw |-> TRUE, resp |-> NoCandidatesResponse]
    ELSE [threw |-> FALSE, resp |-> NoCandidatesResponse]

\* ------------------------------------------------------------ state
VARIABLES
    event,       \* the request of the current invocation
    apiKey,      \* process.env.GEMINI_API_KEY as the invocation reads it
    pc,          \* "start", "awaitFetch", "awaitText", "awaitJson", "done", "threw"
    requests,    \* outbound fetch calls of the invocation, in order
    net,         \* the outbound call: "idle", "inflight", "failed", "open", "closed"
    upstream,    \* what the upstream answered: <<>> or <<[status, body]>>
    responses,   \* response records the invocation returned
    log,         \* console.error lines of the invocation
    invocation   \* number of the current invocation

vars == <<event, apiKey, pc, requests, net, upstream, responses, log, invocation>>

Init ==
    /\ event \in Events
    /\ apiKey \in ApiKeys
    /\ pc = "start"
    /\ requests = <<>>
    /\ net = "idle"
    /\ upstream = <<>>
    /\ responses = <<>>
    /\ log = <<>>
    /\ invocation = 1

\* Lines 17-63: validation, configuration, and the fetch call.
HandlerEntry ==
    /\ pc = "start"
    /\ LET r == Entry(event, apiKey) IN
       /\ pc' = CASE r.kind = "return" -> "done"
                  [] r.kind = "throw" -> "threw"
                  [] OTHER -> "awaitFetch"
       /\ responses' = responses \o r.resp
       /\ log' = log \o r.log
       /\ requests' = requests \o r.req
       /\ net' = IF r.kind = "fetch" THEN "inflight" ELSE net
    /\ UNCHANGED <<event, apiKey, upstream, invocation>>

\* Line 59 rejects: the catch block of lines 86-89.
FetchRejects ==
    /\ pc = "awaitFetch"
    /\ \E msg \in TransportErrors :
         /\ log' = Append(log, CatchLog(msg))
         /\ responses' = Append(responses, CatchResponse(msg))
    /\ net' = "failed"
    /\ pc' = "done"
    /\ UNCHANGED <<event, apiKey, requests, upstream, invocation>>

\* Line 59 resolves with a status line; line 65 picks the branch.
FetchResolves ==
    /\ pc = "awaitFetch"
    /\ \E status \in UpStatuses, body \in UpstreamBodies(requests[1]) :
         /\ upstream' = <<[status |-> status, body |-> body]>>
         /\ pc' = IF Ok(status) THEN "awaitJson" ELSE "awaitText"
    /\ net' = "open"
    /\ UNCHANGED <<event, apiKey, requests, responses, log, invocation>>

\* Lines 66-68: the body of a non-success answer, read as text.
TextResolves ==
    /\ pc = "awaitText"
    /\ upstream[1].body.k = "text"
    /\ log' = Append(log, ApiErrorLog(upstream[1].status, upstream[1].body.t))
    /\ responses' =
         Append(responses, ApiErrorResponse(upstream[1].status, upstream[1].body.t))
    /\ net' = "closed"
    /\ pc' = "done"
    /\ UNCHANGED <<event, apiKey, requests, upstream, invocation>>

\* Line 66 or 71 rejects because the body stream breaks: lines 86-89.
BodyRejects ==
    /\ pc \in {"awaitText", "awaitJson"}
    /\ upstream[1].body.k = "broken"
    /\ \E msg \in TransportErrors :
         /\ log' = Append(log, CatchLog(msg))
         /\ responses' = Append(responses, CatchResponse(msg))
    /\ net' = "closed"
    /\ pc' = "done"
    /\ UNCHANGED <<event, apiKey, requests, upstream, invocation>>

\* Lines 71-84, and lines 86-89 when the body is no JSON or the extraction raises.
JsonResolves ==
    /\ pc = "awaitJson"
    /\ upstream[1].body.k = "text"
    /\ LET parsed == JSONparse(upstream[1].body.t) IN
       IF ~parsed.ok
       THEN \E msg \in JsonErrors(upstream[1].body.t) :
              /\ log' = Append(log, CatchLog(msg))
              /\ responses' = Append(responses, CatchResponse(msg))
       ELSE LET x == Extract(parsed.val) IN
            IF x.threw
            THEN /\ log' = Append(log, CatchLog(TypeErrorMessage))
                 /\ responses' = Append(responses, CatchResponse(TypeErrorMessage))
            ELSE /\ log' = log
                 /\ responses' = Append(responses, x.resp)
    /\ net' = "closed"
    /\ pc' = "done"
    /\ UNCHANGED <<event, apiKey, requests, upstream, invocation>>

\* The platform runs the handler again for the next request; nothing carries over.
NextInvocation ==
    /\ pc \in {"done", "threw"}
    /\ invocation < MaxInvocations
    /\ event' \in Events
    /\ apiKey' \in ApiKeys
    /\ pc' = "start"
    /\ requests' = <<>>
    /\ net' = "idle"
    /\ upstream' = <<>>
    /\ responses' = <<>>
    /\ log' = <<>>
    /\ invocation' = invocation + 1

Next ==
    \/ HandlerEntry
    \/ FetchRejects
    \/ FetchResolves
    \/ TextResolves
    \/ BodyRejects
    \/ JsonResolves
    \/ NextInvocation

Spec == Init /\ [][Next]_vars

\* ------------------------------------------------------------ properties
Finished == pc \in {"done", "threw"}
Answered(status) ==
    pc = "done" /\ Len(responses) = 1 /\ responses[1].statusCode = status

IsPost == event.httpMethod = "POST"
\* The request body is JSON text, and its value.
BodyIsJson == event.body.k = "text" /\ JSONparse(event.body.t).ok
BodyValue == JSONparse(event.body.t).val
\* The body is a JSON object with a truthy prompt.
HasPrompt ==
    BodyIsJson /\ BodyValue.k = "obj" /\ Truthy(Get(BodyValue, "prompt"))
KeyPresent == apiKey.k = "str" /\ apiKey.s # ""

\* The upstream answered with a status and a readable body text.
UpstreamText == upstream # <<>> /\ upstream[1].body.k = "text"
UpstreamJson == UpstreamText /\ JSONparse(upstream[1].body.t).ok
UpstreamValue == JSONparse(upstream[1].body.t).val
\* The parsed upstream body holds a candidate list with at least one entry.
CandidateListNonEmpty ==
    /\ UpstreamValue.k = "obj"
    /\ Get(UpstreamValue, "candidates").k = "arr"
    /\ Len(Get(UpstreamValue, "candidates").items) > 0
\* The parsed upstream body holds no candidate list, or an empty one.
CandidateListEmptyOrAbsent ==
    \/ UpstreamValue.k # "obj"
    \/ Get(UpstreamValue, "candidates").k = "undefined"
    \/ /\ Get(UpstreamValue, "candidates").k = "arr"
       /\ Len(Get(UpstreamValue, "candidates").items) = 0

\* C1: a POST whose body is valid JSON without a truthy prompt (a non-object
\* value, or an object whose prompt is absent or falsy) is answered with 400,
\* whatever the credential.
C1_MissingPromptIs400 ==
    (Finished /\ IsPost /\ BodyIsJson /\ ~HasPrompt) => Answered(400)

\* C2: no response body ever holds the credential value.
C2_BodyNeverHoldsCredential ==
    KeyPresent =>
        \A i \in 1..Len(responses) : ~ContainsAtom(responses[i].body, apiKey.s)

\* C3: a success answer whose JSON body lists at least one candidate yields
\* status 200 and the JSON body {text: T}, T the first part's text of the first
\* candidate, whatever the first candidate looks like.
C3_CandidateIs200 ==
    (pc = "done" /\ UpstreamJson /\ Ok(upstream[1].status) /\ CandidateListNonEmpty)
        => /\ Answered(200)
           /\ responses[1].json
           /\ responses[1].body
                = Stringify(JObj(<<"text">>, <<FirstText(UpstreamValue).val>>))

\* C4: every invocation ends by returning exactly one response with an integer
\* status; none ends with an error raised out of the handler.
C4_AlwaysOneResponse ==
    Finished =>
        pc = "done" /\ Len(responses) = 1 /\ responses[1].statusCode \in Int

\* C5: a request whose method is not POST is answered with 405, whatever its
\* body and whatever the credential, and nothing else is done for it.
C5_NonPostIs405 ==
    (Finished /\ ~IsPost) => (Answered(405) /\ requests = <<>> /\ log = <<>>)

\* C5 witness: a GET that would pass every other check has been answered.
C5_Witness ==
    /\ pc = "done"
    /\ event.httpMethod = "GET"
    /\ HasPrompt
    /\ KeyPresent

\* C6: a POST whose body is not valid JSON text, an absent body included, is
\* answered with 400, whatever the credential.
C6_InvalidJsonIs400 ==
    (Finished /\ IsPost /\ ~BodyIsJson) => Answered(400)

\* C7: a POST with a JSON object body and truthy prompt, run without a
\* credential (unset or empty), is answered with 500 and the fixed generic
\* body; the cause is logged, and the logged line is not in the body.
C7_MissingKeyIs500 ==
    (Finished /\ IsPost /\ HasPrompt /\ ~KeyPresent)
        => /\ Answered(500)
           /\ responses[1].body
                = <<Raw("Internal Server Error: API configuration missing.")>>
           /\ log = <<ConfigMissingLog>>
           /\ responses[1].body # log[1]
           /\ ~IsInfix(log[1], responses[1].body)
           /\ requests = <<>>

\* C7 witness: such a request has been answered with the credential set to the
\* empty string.
C7_Witness ==
    /\ pc = "done"
    /\ IsPost
    /\ HasPrompt
    /\ apiKey = JStr("")

\* C8: a non-success answer with status S and body text T is passed on as
\* status S with T inside the body, T taken as text whether or not it is JSON.
C8_UpstreamErrorPassedOn ==
    (pc = "done" /\ UpstreamText /\ ~Ok(upstream[1].status))
        => /\ Answered(upstream[1].status)
           /\ IsInfix(upstream[1].body.t, responses[1].body)
           /\ ~responses[1].json

\* C8 witness: the upstream answered 429 "rate limited" and the handler returned.
C8_Witness ==
    /\ pc = "done"
    /\ UpstreamText
    /\ upstream[1].status = 429
    /\ upstream[1].body.t = <<Raw("rate limited")>>

\* C9: a success answer whose JSON body has an empty or absent candidate list
\* yields 500 with the fixed no-candidates message; 200 is returned only after
\* a success answer with at least one candidate.
C9_NoCandidatesIs500 ==
    /\ (pc = "done" /\ UpstreamJson /\ Ok(upstream[1].status)
          /\ CandidateListEmptyOrAbsent)
         => /\ Answered(500)
            /\ responses[1].body = <<Raw("Gemini API returned no candidates.")>>
    /\ (\E i \in 1..Len(responses) : responses[i].statusCode = 200)
         => (UpstreamJson /\ Ok(upstream[1].status) /\ CandidateListNonEmpty)

\* C10: an invocation makes exactly one upstream call when the method is POST,
\* the body is JSON with a truthy prompt and the credential is present, and
\* none otherwise; a call is never repeated, and a response after a call comes
\* only once the call has failed or its body has been consumed.
C10_OneCallOrNone ==
    /\ Len(requests) <= 1
    /\ Finished =>
         Len(requests) = (IF IsPost /\ HasPrompt /\ KeyPresent THEN 1 ELSE 0)
    /\ (~(IsPost /\ HasPrompt /\ KeyPresent)) => requests = <<>>
    /\ (responses # <<>> /\ requests # <<>>) => net \in {"failed", "closed"}
    /\ net \in {"inflight", "open"} => responses = <<>>

\* C10 witness: the call failed in transport and the invocation ended with
\* that one call made.
C10_Witness ==
    /\ pc = "done"
    /\ net = "failed"
    /\ Len(requests) = 1
    /\ Len(responses) = 1
====
